---- MODULE Spec2Model ----
(***************************************************************************)
(* Study-session lifecycle of StudySync: the sessions route (POST starts   *)
(* a session, PUT completes it and adds the time to the task) over the     *)
(* StudySession and Task collections, with the tasks route creating and    *)
(* deleting tasks.  A handler is split at its awaited store accesses, the  *)
(* points where another request can run.                                   *)
(*                                                                         *)
(* Time is counted in ticks of MsPerMinute / TicksPerMinute milliseconds.  *)
(* Task.actualHours is kept in sixtieths of an hour, so that               *)
(* "+ totalMinutes / 60" is "+ totalMinutes" here.                         *)
(*                                                                         *)
(* The analytics route (GET) is a read of the same two collections; its    *)
(* specification, SpecAnalytics, starts from collections of completed and  *)
(* active sessions and of tasks with subjects and estimates.               *)
(*                                                                         *)
(* The PomodoroTimer component is the client of the sessions route; its    *)
(* specification, SpecTimer, has one timer instance of one user whose      *)
(* fetches are handled by the route above.                                 *)
(***************************************************************************)
EXTENDS Integers, Sequences, FiniteSets, TLC

\* ---------------------------------------------------------------- bounds
MaxSessions == 2
TicksPerMinute == 1
MaxActualHours == 1
MaxPomodoros == 4
MaxFetches == 2
SecondsPerCount == 300

\* ------------------------------------------------------------- constants
MsPerMinute == 60000
NULL == -1

Users == {"u1", "u2"}
TaskCreators == {"u1"}
NoUser == "null"
TaskIds == {"t1"}
NoTask == "undefined"
Reqs == {1, 2}
SessionIds == 1 .. MaxSessions
Ticks == 0 .. 1

\* Values of actualHours in the body of a PUT /api/tasks, in sixtieths.
ActualHoursUpdates == {0}

\* Request bodies of PUT: the timer's Complete and its Cancel.
Bodies ==
    {[pomodorosCompleted |-> 1, wasCompleted |-> TRUE, notes |-> ""],
     [pomodorosCompleted |-> 0, wasCompleted |-> FALSE, notes |-> ""]}

VARIABLES
    sessions,   \* the StudySession collection: sequence of documents, _id = index
    tasks,      \* the Task collection: TaskIds -> document
    now,        \* the server clock, in ticks
    pc,         \* Reqs -> the awaited store access of the handler, "responded"
                \*         while its response travels to the caller, or "idle"
    req,        \* Reqs -> the request being handled (user of the token, body)
    doc,        \* Reqs -> the handler's local constants
    resp,       \* Reqs -> HTTP status of the response on its way, else 0
    json,       \* Reqs -> the _id in the JSON body of that response, else 0
    timer       \* the state of the PomodoroTimer component on the tasks page

vars == <<sessions, tasks, now, pc, req, doc, resp, json, timer>>

\* ------------------------------------------------------------ documents
getTime(d) == d * (MsPerMinute \div TicksPerMinute)

\* Mutant of NewSession: endTime defaults to the start time instead of null.
NewSessionEnded(userId, taskId, startTime) ==
    [userId |-> userId, taskId |-> taskId, startTime |-> startTime,
     endTime |-> startTime, pomodorosCompleted |-> 0, totalMinutes |-> 0,
     wasCompleted |-> FALSE, notes |-> ""]

\* Schema defaults of a created StudySession.
NewSession(userId, taskId, startTime) ==
    [userId |-> userId, taskId |-> taskId, startTime |-> startTime,
     endTime |-> NULL, pomodorosCompleted |-> 0, totalMinutes |-> 0,
     wasCompleted |-> FALSE, notes |-> ""]

\* Schema defaults of a created Task.
NewTask(userId) ==
    [state |-> "stored", userId |-> userId, actualHours |-> 0]

NoTaskDoc == [state |-> "absent", userId |-> NoUser, actualHours |-> 0]

DeletedTaskDoc == [state |-> "deleted", userId |-> NoUser, actualHours |-> 0]

NoReq == [op |-> "none", userId |-> NoUser, taskId |-> NoTask, sessionId |-> 0,
          pomodorosCompleted |-> 0, wasCompleted |-> FALSE, notes |-> ""]

NoDoc == [startTime |-> NULL, wasActive |-> FALSE, taskId |-> NoTask,
          endTime |-> NULL, totalMinutes |-> 0, actualHours |-> 0]

\* Mutant of FindActiveSession: the query matches ended sessions, { $ne: null }.
FindActiveSessionEnded(userId) ==
    LET hits == {s \in DOMAIN sessions :
                    sessions[s].userId = userId /\ sessions[s].endTime # NULL}
    IN  IF hits = {} THEN 0 ELSE CHOOSE s \in hits : \A o \in hits : s <= o

\* StudySession.findOne({ userId, endTime: null }): an _id, or 0 for null.
FindActiveSession(userId) ==
    LET hits == {s \in DOMAIN sessions :
                    sessions[s].userId = userId /\ sessions[s].endTime = NULL}
    IN  IF hits = {} THEN 0 ELSE CHOOSE s \in hits : \A o \in hits : s <= o

\* Mutant of FindSession: the query is by _id alone.
FindSessionAnyUser(sessionId, userId) ==
    IF sessionId \in DOMAIN sessions THEN sessionId ELSE 0

\* StudySession.findOne({ _id: sessionId, userId }): an _id, or 0 for null.
FindSession(sessionId, userId) ==
    IF sessionId \in DOMAIN sessions /\ sessions[sessionId].userId = userId
    THEN sessionId ELSE 0

\* Math.floor((endTime.getTime() - session.startTime.getTime()) / 60000)
TotalMinutes(startTime, endTime) ==
    (getTime(endTime) - getTime(startTime)) \div MsPerMinute

\* The aggregate is followed within -MaxActualHours .. MaxActualHours.
InRange(actualHours) == -MaxActualHours <= actualHours /\ actualHours <= MaxActualHours

InFlightStarts == Cardinality({q \in Reqs : pc[q] = "post_create"})

Quiet == \A q \in Reqs : pc[q] = "idle"

\* A request is taken up by the first free handler.
Free(r) == pc[r] = "idle" /\ \A q \in Reqs : q < r => pc[q] # "idle"

\* The tasks page without its timer modal (showTimer = false).
NoTimer ==
    [mounted |-> FALSE, timeLeft |-> 0, isRunning |-> FALSE, isPaused |-> FALSE,
     isBreak |-> FALSE, pomodorosCompleted |-> 0, sessionId |-> 0,
     posts |-> 0, puts |-> 0]

NoJson == [r \in Reqs |-> 0]

\* ------------------------------------------------------------------ Init
Init ==
    /\ sessions = <<>>
    /\ tasks = [t \in TaskIds |-> NoTaskDoc]
    /\ now = 0
    /\ pc = [r \in Reqs |-> "idle"]
    /\ req = [r \in Reqs |-> NoReq]
    /\ doc = [r \in Reqs |-> NoDoc]
    /\ resp = [r \in Reqs |-> 0]
    /\ json = NoJson
    /\ timer = NoTimer

\* What is kept of a request once its body has been used.
Sent(request) ==
    [NoReq EXCEPT !.op = request.op, !.sessionId = request.sessionId]

\* return NextResponse.json(..., { status })
Respond(r, request, status) ==
    /\ pc' = [pc EXCEPT ![r] = "responded"]
    /\ req' = [req EXCEPT ![r] = [NoReq EXCEPT !.op = request.op]]
    /\ doc' = [doc EXCEPT ![r] = NoDoc]
    /\ resp' = [resp EXCEPT ![r] = status]

\* The caller receives the response.
Deliver(r) ==
    /\ pc[r] = "responded"
    /\ pc' = [pc EXCEPT ![r] = "idle"]
    /\ req' = [req EXCEPT ![r] = NoReq]
    /\ resp' = [resp EXCEPT ![r] = 0]
    /\ UNCHANGED <<sessions, tasks, now, doc>>

\* Body { taskId } with the token's user.
PostRequest(userId, taskId) ==
    [NoReq EXCEPT !.op = "POST", !.userId = userId, !.taskId = taskId]

\* Body { sessionId, pomodorosCompleted, wasCompleted, notes } with the token's user.
PutRequest(userId, sessionId, body) ==
    [NoReq EXCEPT !.op = "PUT", !.userId = userId, !.sessionId = sessionId,
                  !.pomodorosCompleted = body.pomodorosCompleted,
                  !.wasCompleted = body.wasCompleted, !.notes = body.notes]

\* ------------------------------------------------- sessions route: POST
\* From the request's arrival to the answer of findOne.
POST_findOne(r, userId, taskId) ==
    /\ Free(r)
    /\ Len(sessions) + InFlightStarts < MaxSessions
    /\ LET activeSession == FindActiveSession(userId)
       IN  IF activeSession # 0
           THEN Respond(r, PostRequest(userId, taskId), 400)
           ELSE /\ pc' = [pc EXCEPT ![r] = "post_create"]
                /\ req' = [req EXCEPT ![r] = PostRequest(userId, taskId)]
                /\ doc' = [doc EXCEPT ![r] = [NoDoc EXCEPT !.startTime = now]]
                /\ UNCHANGED resp
    /\ UNCHANGED <<sessions, tasks, now>>

POST_create(r) ==
    /\ pc[r] = "post_create"
    /\ IF req[r].taskId = NoTask
       THEN /\ Respond(r, req[r], 500)
            /\ UNCHANGED sessions
       ELSE /\ sessions' = Append(sessions,
                    NewSession(req[r].userId, req[r].taskId, doc[r].startTime))
            /\ Respond(r, req[r], 201)
    /\ UNCHANGED <<tasks, now>>

\* -------------------------------------------------- sessions route: PUT
\* From the request's arrival to the answer of findOne.
PUT_findOne(r, userId, sessionId, body) ==
    /\ Free(r)
    /\ LET session == FindSession(sessionId, userId)
       IN  IF session = 0
           THEN Respond(r, PutRequest(userId, sessionId, body), 404)
           ELSE /\ pc' = [pc EXCEPT ![r] = "put_save"]
                /\ req' = [req EXCEPT ![r] = PutRequest(userId, sessionId, body)]
                /\ doc' = [doc EXCEPT ![r] = [NoDoc EXCEPT
                       !.wasActive = (sessions[session].endTime = NULL),
                       !.taskId = sessions[session].taskId,
                       !.endTime = now,
                       !.totalMinutes =
                           TotalMinutes(sessions[session].startTime, now)]]
                /\ UNCHANGED resp
    /\ UNCHANGED <<sessions, tasks, now>>

\* Mutant of PUT_save: the session is not written before the task is read.
PUT_saveDeferred(r) ==
    /\ pc[r] = "put_save"
    /\ pc' = [pc EXCEPT ![r] = "put_findById"]
    /\ req' = [req EXCEPT ![r] = Sent(req[r])]
    /\ doc' = [doc EXCEPT ![r].endTime = NULL]
    /\ UNCHANGED <<sessions, tasks, now, resp>>

PUT_save(r) ==
    /\ pc[r] = "put_save"
    /\ sessions' = [sessions EXCEPT ![req[r].sessionId] =
            [@ EXCEPT !.endTime = doc[r].endTime,
                      !.pomodorosCompleted = req[r].pomodorosCompleted,
                      !.totalMinutes = doc[r].totalMinutes,
                      !.wasCompleted = req[r].wasCompleted,
                      !.notes = IF req[r].notes # "" THEN req[r].notes ELSE @]]
    /\ pc' = [pc EXCEPT ![r] = "put_findById"]
    /\ req' = [req EXCEPT ![r] = Sent(req[r])]
    /\ doc' = [doc EXCEPT ![r].endTime = NULL]
    /\ UNCHANGED <<tasks, now, resp>>

\* Mutant of PUT_findById: a missing task is a hard failure (404).
PUT_findByIdStrict(r) ==
    /\ pc[r] = "put_findById"
    /\ IF doc[r].taskId \in TaskIds /\ tasks[doc[r].taskId].state = "stored"
       THEN /\ InRange(tasks[doc[r].taskId].actualHours + doc[r].totalMinutes)
            /\ pc' = [pc EXCEPT ![r] = "put_taskSave"]
            /\ doc' = [doc EXCEPT ![r].actualHours =
                          tasks[doc[r].taskId].actualHours + doc[r].totalMinutes]
            /\ UNCHANGED <<req, resp>>
       ELSE Respond(r, req[r], 404)
    /\ UNCHANGED <<sessions, tasks, now>>

PUT_findById(r) ==
    /\ pc[r] = "put_findById"
    /\ IF doc[r].taskId \in TaskIds /\ tasks[doc[r].taskId].state = "stored"
       THEN /\ InRange(tasks[doc[r].taskId].actualHours + doc[r].totalMinutes)
            /\ pc' = [pc EXCEPT ![r] = "put_taskSave"]
            /\ doc' = [doc EXCEPT ![r].actualHours =
                          tasks[doc[r].taskId].actualHours + doc[r].totalMinutes]
            /\ UNCHANGED <<req, resp>>
       ELSE Respond(r, req[r], 200)
    /\ UNCHANGED <<sessions, tasks, now>>

PUT_taskSave(r) ==
    /\ pc[r] = "put_taskSave"
    /\ IF tasks[doc[r].taskId].state = "stored"
       THEN /\ tasks' = [tasks EXCEPT ![doc[r].taskId].actualHours = doc[r].actualHours]
            /\ Respond(r, req[r], 200)
       ELSE /\ UNCHANGED tasks
            /\ \E status \in {200, 500} : Respond(r, req[r], status)
    /\ UNCHANGED <<sessions, now>>

\* An awaited store access that throws: the handler's catch answers 500.
StoreThrows(r) ==
    /\ pc[r] \in {"post_create", "put_save", "put_findById", "put_taskSave"}
    /\ Respond(r, req[r], 500)
    /\ UNCHANGED <<sessions, tasks, now>>

\* The same for the first access, the findOne of POST and of PUT.
FindOneThrows(r, request) ==
    /\ Free(r)
    /\ Respond(r, request, 500)
    /\ UNCHANGED <<sessions, tasks, now>>

\* ---------------------------------------------------------- tasks route
Tasks_POST(userId, t) ==
    /\ tasks[t].state = "absent"
    /\ tasks' = [tasks EXCEPT ![t] = NewTask(userId)]
    /\ UNCHANGED <<sessions, now, pc, req, doc, resp>>

Tasks_DELETE(userId, t) ==
    /\ tasks[t].state = "stored"
    /\ tasks[t].userId = userId
    /\ tasks' = [tasks EXCEPT ![t] = DeletedTaskDoc]
    /\ UNCHANGED <<sessions, now, pc, req, doc, resp>>

\* Task.findOneAndUpdate({ _id: id, userId }, updates): the rest of the body
\* is written to the task as it comes, here a body { id, actualHours }.
Tasks_PUT(userId, t, actualHours) ==
    /\ tasks[t].state = "stored"
    /\ tasks[t].userId = userId
    /\ tasks' = [tasks EXCEPT ![t].actualHours = actualHours]
    /\ UNCHANGED <<sessions, now, pc, req, doc, resp>>

\* ---------------------------------------------------------------- clock
Tick ==
    /\ now + 1 \in Ticks
    /\ now' = now + 1
    /\ UNCHANGED <<sessions, tasks, pc, req, doc, resp>>

\* The wall clock set back (new Date() is not monotonic).
ClockSetBack ==
    /\ now - 1 \in Ticks
    /\ now' = now - 1
    /\ UNCHANGED <<sessions, tasks, pc, req, doc, resp>>

\* ============================================================= analytics
\* GET /api/analytics over the same two collections.  Instants are counted in
\* the ticks of the clock above; hours (estimatedHours, actualHours, the
\* breakdowns) are kept in sixtieths.  An ISO date string is its day number.
MinutesPerHour == 60
HoursPerDay == 24
WeekDays == 7
StreakDays == 30
AccuracyLow == 50
AccuracyHigh == 80
UnderestimateNum == 12
UnderestimateDen == 10
MinSubjectTasks == 2
TicksPerHour == MinutesPerHour * TicksPerMinute
TicksPerDay == HoursPerDay * TicksPerHour

\* The time zone of the server process: five hours behind UTC, four once
\* daylight saving time has begun, at 02:00 local time of day 40.
ServerZone ==
    [std |-> -5 * TicksPerHour, dst |-> -4 * TicksPerHour,
     dstStart |-> 40 * TicksPerDay + 7 * TicksPerHour]

\* Local time minus UTC at the instant t.
LocalTZA(t) == IF t >= ServerZone.dstStart THEN ServerZone.dst ELSE ServerZone.std

\* The instant of a local wall-clock time; a time skipped by the change is
\* read with the offset from before it.
UTC(w) ==
    IF w - ServerZone.dst >= ServerZone.dstStart
    THEN w - ServerZone.dst ELSE w - ServerZone.std

\* date.setDate(date.getDate() - k): the same local time of day, k days back.
setDate(t, k) == UTC(t + LocalTZA(t) - k * TicksPerDay)

\* date.toISOString().split('T')[0]: the UTC calendar date.
toISODate(t) == t \div TicksPerDay

\* new Date(session.startTime).getHours(): the local hour of day.
getHours(t) == ((t + LocalTZA(t)) \div TicksPerHour) % HoursPerDay

RECURSIVE Sum(_)
Sum(ns) == IF ns = <<>> THEN 0 ELSE Head(ns) + Sum(Tail(ns))

Abs(n) == IF n < 0 THEN -n ELSE n

\* A quotient n / d with d > 0, kept exact.
Ratio(n, d) == [num |-> n, den |-> d]

\* parseFloat(x.toFixed(1)) of x = n / d, in tenths: to the nearest tenth,
\* a half away from zero.
toFixed1(n, d) ==
    IF n >= 0 THEN (2 * 10 * n + d) \div (2 * d)
    ELSE -((2 * 10 * (-n) + d) \div (2 * d))

\* Mutant of FindCompletedSessions: the query is { userId } alone.
FindAllSessions(userId) ==
    SelectSeq(sessions, LAMBDA s : s.userId = userId)

\* StudySession.find({ userId, endTime: { $ne: null } })
FindCompletedSessions(userId) ==
    SelectSeq(sessions, LAMBDA s : s.userId = userId /\ s.endTime # NULL)

\* Ids of the tasks in the order Task.find returns them.
TaskOrder == <<"t1", "t2", "t3", "t4">>

\* Task.find({ userId })
FindTasks(userId) ==
    SelectSeq([i \in 1 .. Len(TaskOrder) |-> tasks[TaskOrder[i]]],
              LAMBDA t : t.state = "stored" /\ t.userId = userId)

\* sessions.filter(s => new Date(s.startTime) >= sevenDaysAgo)
recentSessions(ss) ==
    SelectSeq(ss, LAMBDA s : s.startTime >= now - WeekDays * TicksPerDay)

totalPomodoros(ss) == Sum([i \in 1 .. Len(ss) |-> ss[i].pomodorosCompleted])

totalMinutesStudied(ss) == Sum([i \in 1 .. Len(ss) |-> ss[i].totalMinutes])

\* Mutant of Max0: the quotient is passed on as it is.
Max0Unclamped(x) == x

\* Math.max(0, x) of a quotient.
Max0(x) == IF x.num > 0 THEN x ELSE Ratio(0, 1)

\* ((estimated - Math.abs(actual - estimated)) / estimated) * 100, or 0.
Accuracy(estimated, actual) ==
    IF estimated > 0
    THEN Ratio((estimated - Abs(actual - estimated)) * 100, estimated)
    ELSE Ratio(0, 1)

\* One entry of taskAccuracy.
taskAccuracy(task) ==
    [subject |-> task.subject,
     estimated |-> task.estimatedHours,
     actual |-> task.actualHours,
     difference |-> task.actualHours - task.estimatedHours,
     accuracyPercent |-> Max0(Accuracy(task.estimatedHours, task.actualHours))]

totalEstimated(ts) == Sum([i \in 1 .. Len(ts) |-> ts[i].estimatedHours])

totalActual(ts) == Sum([i \in 1 .. Len(ts) |-> ts[i].actualHours])

overallAccuracy(ts) == Accuracy(totalEstimated(ts), totalActual(ts))

\* hourlyData: local hour of day -> hours studied, for the hours that occur.
hourlyData(ss) ==
    [h \in {getHours(ss[i].startTime) : i \in 1 .. Len(ss)} |->
        Sum([i \in 1 .. Len(ss) |->
                IF getHours(ss[i].startTime) = h THEN ss[i].totalMinutes ELSE 0])]

\* The forEach over Object.entries(hourlyData), keys in ascending order, from
\* the hour h on, with mostProductiveHour = best and maxHours = max so far.
RECURSIVE mostProductiveFrom(_, _, _, _)
mostProductiveFrom(hourly, h, best, max) ==
    IF h >= HoursPerDay THEN best
    ELSE IF h \in DOMAIN hourly /\ hourly[h] > max
         THEN mostProductiveFrom(hourly, h + 1, h, hourly[h])
         ELSE mostProductiveFrom(hourly, h + 1, best, max)

mostProductiveHour(ss) == mostProductiveFrom(hourlyData(ss), 0, 0, 0)

\* .populate('taskId'): the task document, whoever owns it, or null.
Populate(taskId) ==
    IF taskId \in DOMAIN tasks /\ tasks[taskId].state = "stored"
    THEN tasks[taskId] ELSE NoTaskDoc

\* subjectData: subject of the populated task -> hours studied.
subjectData(ss) ==
    LET subjectOf(i) == Populate(ss[i].taskId)
        has(i) == subjectOf(i).state = "stored"
    IN  [subj \in {subjectOf(i).subject : i \in {j \in 1 .. Len(ss) : has(j)}} |->
            Sum([i \in 1 .. Len(ss) |->
                    IF has(i) /\ subjectOf(i).subject = subj
                    THEN ss[i].totalMinutes ELSE 0])]

\* last7Days: the dates of today and of the six days before, oldest first.
last7Days == [i \in 1 .. WeekDays |-> toISODate(setDate(now, WeekDays - i))]

\* dailyStudyTime: date -> hours studied, for the dates of last7Days.
dailyStudyTime(ss) ==
    [day \in {last7Days[i] : i \in 1 .. WeekDays} |->
        Sum([i \in 1 .. Len(ss) |->
                IF toISODate(ss[i].startTime) = day THEN ss[i].totalMinutes ELSE 0])]

\* The streak loop from its iteration i on, with tempStreak = temp.
RECURSIVE streakFrom(_, _, _)
streakFrom(ss, i, temp) ==
    IF i >= StreakDays THEN temp
    ELSE LET dayStr == toISODate(setDate(now, i))
             hasSessions == \E k \in 1 .. Len(ss) : toISODate(ss[k].startTime) = dayStr
         IN  IF hasSessions THEN streakFrom(ss, i + 1, temp + 1)
             ELSE IF dayStr = toISODate(now) THEN streakFrom(ss, i + 1, temp)
             ELSE temp

currentStreak(ss) == streakFrom(ss, 0, 0)

\* The subjects of the tasks ts[i ..], each once, in the order they first
\* occur (the key order of the reduce's accumulator), given those seen before.
RECURSIVE subjectsFrom(_, _, _)
subjectsFrom(ts, i, seen) ==
    IF i > Len(ts) THEN <<>>
    ELSE IF ts[i].subject \in seen THEN subjectsFrom(ts, i + 1, seen)
         ELSE <<ts[i].subject>> \o subjectsFrom(ts, i + 1, seen \cup {ts[i].subject})

\* acc[subj] after the reduce over the tasks.
subjectTotals(ts, subj) ==
    LET of(i) == ts[i].subject = subj
    IN  [estimated |-> Sum([i \in 1 .. Len(ts) |-> IF of(i) THEN ts[i].estimatedHours ELSE 0]),
         actual |-> Sum([i \in 1 .. Len(ts) |-> IF of(i) THEN ts[i].actualHours ELSE 0]),
         count |-> Cardinality({i \in 1 .. Len(ts) : of(i)})]

\* Mutant of Underestimated: the number of tasks is not looked at.
UnderestimatedAnyCount(data) ==
    UnderestimateDen * data.actual > UnderestimateNum * data.estimated

\* data.actual > data.estimated * 1.2 && data.count >= 2
Underestimated(data) ==
    /\ UnderestimateDen * data.actual > UnderestimateNum * data.estimated
    /\ data.count >= MinSubjectTasks

underestimatedSubjects(ts) ==
    SelectSeq(subjectsFrom(ts, 1, {}), LAMBDA subj : Underestimated(subjectTotals(ts, subj)))

\* Mutant of insights: the peak-hour note is pushed first.
insightsPeakFirst(ss, ts) ==
    LET weeklyPomodoros == totalPomodoros(recentSessions(ss))
        accuracy == overallAccuracy(ts)
        hour == mostProductiveHour(ss)
        streak == currentStreak(ss)
        subjects == underestimatedSubjects(ts)
    IN  <<[message |-> "peak productivity",
           value |-> <<((hour + 11) % 12) + 1,
                       IF hour >= 12 THEN "PM" ELSE "AM">>]>>
        \o (IF weeklyPomodoros > 0
            THEN <<[message |-> "pomodoros this week", value |-> weeklyPomodoros]>>
            ELSE <<>>)
        \o (IF accuracy.num < AccuracyLow * accuracy.den
            THEN <<[message |-> "estimates often off", value |-> 0]>>
            ELSE IF accuracy.num > AccuracyHigh * accuracy.den
                 THEN <<[message |-> "estimates accurate", value |-> 0]>>
                 ELSE <<>>)
        \o (IF streak > 0
            THEN <<[message |-> "study streak", value |-> streak]>>
            ELSE <<>>)
        \o (IF Len(subjects) > 0
            THEN <<[message |-> "underestimate", value |-> subjects]>>
            ELSE <<>>)

\* The insights array; a message is its template and the values filled in.
insights(ss, ts) ==
    LET weeklyPomodoros == totalPomodoros(recentSessions(ss))
        accuracy == overallAccuracy(ts)
        hour == mostProductiveHour(ss)
        streak == currentStreak(ss)
        subjects == underestimatedSubjects(ts)
    IN  (IF weeklyPomodoros > 0
         THEN <<[message |-> "pomodoros this week", value |-> weeklyPomodoros]>>
         ELSE <<>>)
        \o (IF accuracy.num < AccuracyLow * accuracy.den
            THEN <<[message |-> "estimates often off", value |-> 0]>>
            ELSE IF accuracy.num > AccuracyHigh * accuracy.den
                 THEN <<[message |-> "estimates accurate", value |-> 0]>>
                 ELSE <<>>)
        \o <<[message |-> "peak productivity",
              value |-> <<((hour + 11) % 12) + 1,
                          IF hour >= 12 THEN "PM" ELSE "AM">>]>>
        \o (IF streak > 0
            THEN <<[message |-> "study streak", value |-> streak]>>
            ELSE <<>>)
        \o (IF Len(subjects) > 0
            THEN <<[message |-> "underestimate", value |-> subjects]>>
            ELSE <<>>)

\* The JSON body of the answer.
ComputeAnalytics(userId) ==
    LET ss == FindCompletedSessions(userId)
        ts == FindTasks(userId)
    IN  [summary |->
            [totalPomodoros |-> totalPomodoros(ss),
             totalHoursStudied |-> toFixed1(totalMinutesStudied(ss), MinutesPerHour),
             overallAccuracy |->
                 toFixed1(overallAccuracy(ts).num, overallAccuracy(ts).den),
             currentStreak |-> currentStreak(ss),
             sessionsCount |-> Len(ss)],
         taskAccuracy |-> [i \in 1 .. Len(ts) |-> taskAccuracy(ts[i])],
         subjectData |-> subjectData(ss),
         hourlyData |-> hourlyData(ss),
         dailyStudyTime |-> dailyStudyTime(ss),
         mostProductiveHour |-> mostProductiveHour(ss),
         insights |-> insights(ss, ts)]

\* ------------------------------------------------ analytics route: GET
\* Mutant of Analytics_GET: the handler resets actualHours of the user's tasks.
Analytics_GETResetting(r, userId) ==
    /\ Free(r)
    /\ pc' = [pc EXCEPT ![r] = "responded"]
    /\ req' = [req EXCEPT ![r] = [NoReq EXCEPT !.op = "GET", !.userId = userId]]
    /\ doc' = [doc EXCEPT ![r] = ComputeAnalytics(userId)]
    /\ resp' = [resp EXCEPT ![r] = 200]
    /\ tasks' = [t \in DOMAIN tasks |->
                    IF tasks[t].userId = userId
                    THEN [tasks[t] EXCEPT !.actualHours = 0] ELSE tasks[t]]
    /\ UNCHANGED <<sessions, now>>

\* The handler from the request's arrival to its answer: it reads the two
\* collections and writes neither.
Analytics_GET(r, userId) ==
    /\ Free(r)
    /\ pc' = [pc EXCEPT ![r] = "responded"]
    /\ req' = [req EXCEPT ![r] = [NoReq EXCEPT !.op = "GET", !.userId = userId]]
    /\ doc' = [doc EXCEPT ![r] = ComputeAnalytics(userId)]
    /\ resp' = [resp EXCEPT ![r] = 200]
    /\ UNCHANGED <<sessions, tasks, now>>

\* The caller receives the snapshot.
Analytics_Deliver(r) ==
    /\ pc[r] = "responded"
    /\ pc' = [pc EXCEPT ![r] = "idle"]
    /\ req' = [req EXCEPT ![r] = NoReq]
    /\ doc' = [doc EXCEPT ![r] = NoDoc]
    /\ resp' = [resp EXCEPT ![r] = 0]
    /\ UNCHANGED <<sessions, tasks, now>>

\* -------------------------------------------------------- specifications
Arrive(r) ==
    \/ \E u \in Users, t \in TaskIds \cup {NoTask} : POST_findOne(r, u, t)
    \/ \E u \in Users, s \in SessionIds, b \in Bodies : PUT_findOne(r, u, s, b)
    \/ \E u \in Users, t \in TaskIds \cup {NoTask} :
          FindOneThrows(r, PostRequest(u, t))
    \/ \E u \in Users, s \in SessionIds, b \in Bodies :
          FindOneThrows(r, PutRequest(u, s, b))

Step(r) ==
    \/ POST_create(r)
    \/ PUT_save(r)
    \/ PUT_findById(r)
    \/ PUT_taskSave(r)
    \/ StoreThrows(r)
    \/ Deliver(r)

TaskOp ==
    \/ \E u \in TaskCreators, t \in TaskIds : Tasks_POST(u, t)
    \/ \E u \in Users, t \in TaskIds : Tasks_DELETE(u, t)
    \/ \E u \in Users, t \in TaskIds, h \in ActualHoursUpdates : Tasks_PUT(u, t, h)

\* Requests interleave at their store accesses.
Next ==
    /\ \/ \E r \in Reqs : Arrive(r)
       \/ \E r \in Reqs : Step(r)
       \/ TaskOp
       \/ Tick
       \/ ClockSetBack
    /\ UNCHANGED <<json, timer>>

Spec == Init /\ [][Next]_vars

\* One operation at a time: a request is taken up only when none is in flight.
NextSeq ==
    /\ \/ Quiet /\ \E r \in Reqs : Arrive(r)
       \/ \E r \in Reqs : Step(r)
       \/ Quiet /\ TaskOp
       \/ Tick
       \/ ClockSetBack
    /\ UNCHANGED <<json, timer>>

SpecSeq == Init /\ [][NextSeq]_vars

\* Session requests interleave; the tasks route is used, and the clock is set
\* back, between them only.
NextSessions ==
    /\ \/ \E r \in Reqs : Arrive(r)
       \/ \E r \in Reqs : Step(r)
       \/ Quiet /\ TaskOp
       \/ Tick
       \/ Quiet /\ ClockSetBack
    /\ UNCHANGED <<json, timer>>

SpecSessions == Init /\ [][NextSessions]_vars

\* ----------------------------------------------- analytics: the inputs
\* The instant of an hour of a UTC day.
At(day, hour) == day * TicksPerDay + hour * TicksPerHour

\* The times of the requests: noon and 23:00 UTC of day 41, the day after the
\* change to daylight saving time.
Nows == {At(41, 12), At(41, 23)}

\* A session completed by PUT after the minutes given.
EndedSession(userId, startTime, minutes, pomodoros) ==
    [NewSession(userId, "t1", startTime) EXCEPT
        !.endTime = startTime + minutes * TicksPerMinute,
        !.totalMinutes = minutes,
        !.pomodorosCompleted = pomodoros,
        !.wasCompleted = pomodoros > 0]

\* The sessions a collection is drawn from, in the order of their creation.
SessionPool ==
    <<EndedSession("u1", At(33, 10), 30, 1),
      EndedSession("u1", At(34, 13), 30, 1),
      EndedSession("u1", At(35, 10), 90, 2),
      EndedSession("u1", At(38, 10), 30, 1),
      EndedSession("u1", At(39, 10), 0, 0),
      EndedSession("u1", At(40, 10), 30, 1),
      EndedSession("u2", At(40, 13), 90, 2),
      EndedSession("u1", At(41, 4), 90, 2),
      EndedSession("u1", At(41, 10), 30, 1),
      NewSession("u1", "t1", At(41, 11)),
      NewSession("u2", "t1", At(41, 11))>>

\* The sessions of the pool with their index in the set picked, from i on.
RECURSIVE Pick(_, _)
Pick(picked, i) ==
    IF i > Len(SessionPool) THEN <<>>
    ELSE (IF i \in picked THEN <<SessionPool[i]>> ELSE <<>>) \o Pick(picked, i + 1)

\* One completed half-hour session of u1 on each of the days first .. last.
DailySessions(first, last) ==
    [i \in 1 .. last - first + 1 |-> EndedSession("u1", At(first + i - 1, 10), 30, 1)]

SessionCollections ==
    {Pick(picked, 1) : picked \in SUBSET (1 .. Len(SessionPool))}
        \cup {DailySessions(41 - StreakDays, 41), DailySessions(41 - StreakDays, 40)}

FewSessions == {<<>>, <<EndedSession("u1", At(41, 10), 30, 1)>>}

\* A task as the tasks route stores it, with the fields the analytics read.
AnalyticsTask(userId, subject, estimatedHours, actualHours) ==
    [state |-> "stored", userId |-> userId, subject |-> subject,
     estimatedHours |-> estimatedHours * MinutesPerHour,
     actualHours |-> actualHours * MinutesPerHour]

NoAnalyticsTask ==
    [state |-> "absent", userId |-> NoUser, subject |-> "",
     estimatedHours |-> 0, actualHours |-> 0]

\* estimatedHours and actualHours of a task, in hours.
Efforts == {<<10, 8>>, <<10, 12>>, <<10, 25>>, <<0, 8>>}

Subjects == {"Math", "Art"}

TaskInputs ==
    {NoAnalyticsTask} \cup
        {AnalyticsTask(u, subj, e[1], e[2]) : u \in TaskCreators, subj \in Subjects, e \in Efforts}

AnalyticsTaskIds == {TaskOrder[i] : i \in 1 .. Len(TaskOrder)}

TaskCollections == [AnalyticsTaskIds -> TaskInputs]

FewTasks ==
    {[t \in AnalyticsTaskIds |-> NoAnalyticsTask],
     [t \in AnalyticsTaskIds |->
         IF t = "t1" THEN AnalyticsTask("u1", "Math", 10, 8) ELSE NoAnalyticsTask]}

\* The collections as the lifecycle and the tasks route can have left them.
AnalyticsInit ==
    /\ \/ /\ sessions \in SessionCollections
          /\ tasks \in FewTasks
          /\ now \in Nows
       \/ /\ sessions \in FewSessions
          /\ tasks \in TaskCollections
          /\ now = At(41, 12)
    /\ pc = [r \in Reqs |-> "idle"]
    /\ req = [r \in Reqs |-> NoReq]
    /\ doc = [r \in Reqs |-> NoDoc]
    /\ resp = [r \in Reqs |-> 0]
    /\ json = NoJson
    /\ timer = NoTimer

\* Requests for snapshots arrive while others are on their way back.
AnalyticsNext ==
    /\ \/ \E r \in Reqs, u \in Users : Analytics_GET(r, u)
       \/ \E r \in Reqs : Analytics_Deliver(r)
    /\ UNCHANGED <<json, timer>>

SpecAnalytics == AnalyticsInit /\ [][AnalyticsNext]_vars

\* ========================================================= PomodoroTimer
\* The timer modal of the tasks page, for one task of one user.  Its
\* countdown is followed in steps of SecondsPerCount firings of the
\* one-second interval; its fetches are requests to the sessions route.
FocusSeconds == 25 * 60
ShortBreakSeconds == 5 * 60
LongBreakSeconds == 15 * 60
LongBreakEvery == 4

\* The user of the token prop and the task of the taskId prop.
TimerUser == "u1"
TimerTask == "t1"

\* The useState initial values of a mounted timer; posts and puts count the
\* fetches the instance has sent.
NewTimer ==
    [mounted |-> TRUE, timeLeft |-> FocusSeconds, isRunning |-> FALSE,
     isPaused |-> FALSE, isBreak |-> FALSE, pomodorosCompleted |-> 0,
     sessionId |-> 0, posts |-> 0, puts |-> 0]

\* onComplete() / onCancel(): the page sets showTimer to false and the
\* component, with its state, is gone.
Unmounted(t) == [NoTimer EXCEPT !.posts = t.posts, !.puts = t.puts]

\* Mutant of handleTimerComplete: every break is a short one.
handleTimerCompleteShortBreak(t) ==
    IF ~t.isBreak
    THEN [t EXCEPT !.isRunning = FALSE,
                   !.pomodorosCompleted = t.pomodorosCompleted + 1,
                   !.timeLeft = ShortBreakSeconds,
                   !.isBreak = TRUE]
    ELSE [t EXCEPT !.isRunning = FALSE,
                   !.timeLeft = FocusSeconds,
                   !.isBreak = FALSE]

\* handleTimerComplete, run by the effect when timeLeft is 0.
handleTimerComplete(t) ==
    IF ~t.isBreak
    THEN LET newPomodoros == t.pomodorosCompleted + 1
         IN  [t EXCEPT !.isRunning = FALSE,
                       !.pomodorosCompleted = newPomodoros,
                       !.timeLeft = IF newPomodoros % LongBreakEvery = 0
                                    THEN LongBreakSeconds ELSE ShortBreakSeconds,
                       !.isBreak = TRUE]
    ELSE [t EXCEPT !.isRunning = FALSE,
                   !.timeLeft = FocusSeconds,
                   !.isBreak = FALSE]

\* The interval of the effect: setTimeLeft(prev => prev - 1) while the timer
\* runs, and the effect's call of handleTimerComplete once timeLeft is 0.
Interval ==
    /\ timer.mounted /\ timer.isRunning /\ timer.timeLeft > 0
    /\ LET left == IF timer.timeLeft > SecondsPerCount
                   THEN timer.timeLeft - SecondsPerCount ELSE 0
       IN  /\ (left = 0 /\ ~timer.isBreak) => timer.pomodorosCompleted < MaxPomodoros
           /\ timer' = IF left = 0
                       THEN handleTimerComplete([timer EXCEPT !.timeLeft = 0])
                       ELSE [timer EXCEPT !.timeLeft = left]
    /\ UNCHANGED <<sessions, tasks, now, pc, req, doc, resp, json>>

\* startSession up to its await: fetch('/api/sessions', { method: 'POST' }).
startSession ==
    \E r \in Reqs :
        \/ POST_findOne(r, TimerUser, TimerTask)
        \/ FindOneThrows(r, PostRequest(TimerUser, TimerTask))

\* Start and Resume, shown while the timer is not running.
handleStart ==
    /\ timer.mounted
    /\ (~timer.isRunning /\ ~timer.isPaused) \/ timer.isPaused
    /\ IF timer.sessionId = 0
       THEN /\ timer.posts < MaxFetches
            /\ startSession
            /\ timer' = [timer EXCEPT !.posts = timer.posts + 1,
                                      !.isRunning = TRUE, !.isPaused = FALSE]
       ELSE /\ timer' = [timer EXCEPT !.isRunning = TRUE, !.isPaused = FALSE]
            /\ UNCHANGED <<sessions, tasks, now, pc, req, doc, resp>>
    /\ UNCHANGED json

\* Pause, shown while the timer is running.
handlePause ==
    /\ timer.mounted /\ timer.isRunning
    /\ timer' = [timer EXCEPT !.isRunning = FALSE, !.isPaused = TRUE]
    /\ UNCHANGED <<sessions, tasks, now, pc, req, doc, resp, json>>

\* completeSession(completed) up to its await, or to its early return, after
\* which the caller's onComplete() / onCancel() runs at once.
completeSession(completed) ==
    IF timer.sessionId = 0
    THEN /\ timer' = Unmounted(timer)
         /\ UNCHANGED <<sessions, tasks, now, pc, req, doc, resp>>
    ELSE LET body == [pomodorosCompleted |-> timer.pomodorosCompleted,
                      wasCompleted |-> completed, notes |-> ""]
         IN  /\ timer.puts < MaxFetches
             /\ \E r \in Reqs :
                   \/ PUT_findOne(r, TimerUser, timer.sessionId, body)
                   \/ FindOneThrows(r, PutRequest(TimerUser, timer.sessionId, body))
             /\ timer' = [timer EXCEPT !.puts = timer.puts + 1]

\* Complete, shown outside breaks.
handleComplete ==
    /\ timer.mounted /\ ~timer.isBreak
    /\ completeSession(TRUE)
    /\ UNCHANGED json

\* Cancel, always shown.
handleCancel ==
    /\ timer.mounted
    /\ completeSession(FALSE)
    /\ UNCHANGED json

\* startSession after its await: setSessionId(data._id) if response.ok.
startSession_response(r) ==
    /\ req[r].op = "POST"
    /\ Deliver(r)
    /\ timer' = IF resp[r] = 201 /\ timer.mounted
                THEN [timer EXCEPT !.sessionId = json[r]] ELSE timer
    /\ json' = [json EXCEPT ![r] = 0]

\* completeSession after its await, then onComplete() / onCancel().
completeSession_response(r) ==
    /\ req[r].op = "PUT"
    /\ Deliver(r)
    /\ timer' = Unmounted(timer)
    /\ UNCHANGED json

\* The create of POST, answering NextResponse.json(session, { status: 201 }).
Timer_POST_create(r) ==
    /\ POST_create(r)
    /\ json' = [json EXCEPT ![r] = IF resp'[r] = 201 THEN Len(sessions') ELSE 0]
    /\ UNCHANGED timer

\* The other store accesses of the handlers.
Timer_Step(r) ==
    /\ \/ PUT_save(r)
       \/ PUT_findById(r)
       \/ PUT_taskSave(r)
       \/ StoreThrows(r)
    /\ UNCHANGED <<json, timer>>

\* The page has opened the timer for a task of the user.
TimerInit ==
    /\ sessions = <<>>
    /\ tasks = [t \in TaskIds |-> NewTask(TimerUser)]
    /\ now = 0
    /\ pc = [r \in Reqs |-> "idle"]
    /\ req = [r \in Reqs |-> NoReq]
    /\ doc = [r \in Reqs |-> NoDoc]
    /\ resp = [r \in Reqs |-> 0]
    /\ json = NoJson
    /\ timer = NewTimer

NextTimer ==
    \/ handleStart
    \/ handlePause
    \/ handleComplete
    \/ handleCancel
    \/ Interval
    \/ \E r \in Reqs : startSession_response(r)
    \/ \E r \in Reqs : completeSession_response(r)
    \/ \E r \in Reqs : Timer_POST_create(r)
    \/ \E r \in Reqs : Timer_Step(r)

SpecTimer == TimerInit /\ [][NextTimer]_vars

\* ------------------------------------------------------------ properties
ActiveSessions(userId) ==
    {s \in DOMAIN sessions : sessions[s].userId = userId /\ sessions[s].endTime = NULL}

HasActive(userId) ==
    \E s \in DOMAIN sessions : sessions[s].userId = userId /\ sessions[s].endTime = NULL

Owned(sessionId, userId) ==
    sessionId \in DOMAIN sessions /\ sessions[sessionId].userId = userId

\* C1: with the findOne and the create of concurrent POSTs interleaving, no
\* user ever owns two sessions with endTime = null.
C1_OneActiveUnderConcurrentStarts ==
    \A u \in Users : Cardinality(ActiveSessions(u)) <= 1

\* C2: with one operation at a time, no two distinct sessions of one user
\* have endTime = null.
C2_OneActiveSequential ==
    \A s1, s2 \in DOMAIN sessions :
        (/\ sessions[s1].userId = sessions[s2].userId
         /\ sessions[s1].endTime = NULL
         /\ sessions[s2].endTime = NULL) => s1 = s2

\* C2 witness: a user has completed one session and started the next.
C2_Witness ==
    \E s1, s2 \in DOMAIN sessions :
        /\ sessions[s1].userId = sessions[s2].userId
        /\ sessions[s1].endTime # NULL
        /\ sessions[s2].endTime = NULL
        /\ Quiet

InPut(r) == pc[r] \in {"put_save", "put_findById", "put_taskSave"}

\* C3: a completeSession that found its session already ended (endTime set)
\* never changes a task's actualHours: a session adds to its task at most once.
C3_NoIncrementOnceEnded ==
    [][\A r \in Reqs :
          (InPut(r) /\ ~doc[r].wasActive) =>
              \A t \in TaskIds : tasks'[t].actualHours = tasks[t].actualHours]_vars

\* C4: a session with endTime set has totalMinutes =
\* floor((endTime - startTime) / 60 s) >= 0, and an active one has 0.
C4_TotalMinutesIsFloorAndNonNegative ==
    \A s \in DOMAIN sessions :
        IF sessions[s].endTime # NULL
        THEN /\ sessions[s].totalMinutes =
                   (getTime(sessions[s].endTime) - getTime(sessions[s].startTime))
                       \div MsPerMinute
             /\ sessions[s].totalMinutes >= 0
        ELSE sessions[s].totalMinutes = 0

\* C5: a startSession of a user who has an active session is answered with
\* the error 400, creates no session and changes no session and no task.
C5_StartWhileActiveIsRefused ==
    [][\A r \in Reqs :
          (pc[r] = "idle" /\ req'[r].op = "POST") =>
              \A u \in Users, t \in TaskIds \cup {NoTask} :
                  (HasActive(u) /\ POST_findOne(r, u, t)) =>
                      /\ pc'[r] = "responded"
                      /\ resp'[r] = 400
                      /\ sessions' = sessions
                      /\ tasks' = tasks]_vars

\* C5 witness: a POST was answered 400 and the active session is still there.
C5_Witness ==
    \E r \in Reqs :
        /\ pc[r] = "responded" /\ req[r].op = "POST" /\ resp[r] = 400
        /\ \E u \in Users : HasActive(u)

\* C6: a startSession that succeeds (201) took startTime from the server
\* clock when it issued the create, and the create adds exactly one session,
\* of the caller, with that startTime, endTime = null and totalMinutes = 0,
\* leaving every other session and every task as they were.
C6_StartCreatesOneActiveSession ==
    [][\A r \in Reqs :
          /\ (pc[r] = "idle" /\ pc'[r] = "post_create") => doc'[r].startTime = now
          /\ (pc[r] = "post_create" /\ pc'[r] = "responded" /\ resp'[r] = 201) =>
                /\ Len(sessions') = Len(sessions) + 1
                /\ \A s \in DOMAIN sessions : sessions'[s] = sessions[s]
                /\ LET new == sessions'[Len(sessions')]
                   IN  /\ new.userId = req[r].userId
                       /\ new.taskId = req[r].taskId
                       /\ new.startTime = doc[r].startTime
                       /\ new.endTime = NULL
                       /\ new.totalMinutes = 0
                /\ tasks' = tasks]_vars

\* C6 witness: a POST was answered 201 next to an older session and a task.
C6_Witness ==
    \E r \in Reqs :
        /\ pc[r] = "responded" /\ req[r].op = "POST" /\ resp[r] = 201
        /\ Len(sessions) = 2
        /\ sessions[2].endTime = NULL
        /\ \E t \in TaskIds : tasks[t].state = "stored" /\ tasks[t].actualHours # 0

\* C7: a completeSession whose sessionId names no session, or a session of
\* another user, is answered 404 and changes no session and no task.
C7_UnknownOrForeignSessionIsNotFound ==
    [][\A r \in Reqs :
          (pc[r] = "idle" /\ req'[r].op = "PUT") =>
              \A u \in Users, s \in SessionIds, b \in Bodies :
                  (~Owned(s, u) /\ PUT_findOne(r, u, s, b)) =>
                      /\ pc'[r] = "responded"
                      /\ resp'[r] = 404
                      /\ sessions' = sessions
                      /\ tasks' = tasks]_vars

\* C7 witness: a PUT was answered 404 although every session id exists, so
\* the session named belongs to another user, and it is still active.
C7_Witness ==
    \E r \in Reqs :
        /\ pc[r] = "responded" /\ req[r].op = "PUT" /\ resp[r] = 404
        /\ DOMAIN sessions = SessionIds
        /\ \A s \in DOMAIN sessions : sessions[s].endTime = NULL

\* C8: a completeSession that read the clock before the session's startTime
\* fails: it answers an error and writes neither the session nor the task.
C8_NegativeDeltaIsAnError ==
    [][\A r \in Reqs :
          (/\ pc[r] = "put_save"
           /\ doc[r].endTime < sessions[req[r].sessionId].startTime
           /\ pc'[r] # pc[r]) =>
              /\ pc'[r] = "responded"
              /\ resp'[r] >= 400
              /\ sessions' = sessions
              /\ tasks' = tasks]_vars

\* C9: when a completeSession that found its session active answers an error,
\* at whatever step, that session still has endTime = null.
C9_FailedCompleteLeavesSessionActive ==
    [][\A r \in Reqs :
          (/\ InPut(r)
           /\ doc[r].wasActive
           /\ pc'[r] = "responded"
           /\ resp'[r] >= 400) =>
              sessions'[req[r].sessionId].endTime = NULL]_vars

\* C10: once a session has endTime set, no step changes its endTime,
\* totalMinutes, pomodorosCompleted or wasCompleted.
C10_EndedSessionIsFrozen ==
    [][\A s \in DOMAIN sessions :
          sessions[s].endTime # NULL =>
              /\ sessions'[s].endTime = sessions[s].endTime
              /\ sessions'[s].totalMinutes = sessions[s].totalMinutes
              /\ sessions'[s].pomodorosCompleted = sessions[s].pomodorosCompleted
              /\ sessions'[s].wasCompleted = sessions[s].wasCompleted]_vars

TaskStored(taskId) == taskId \in TaskIds /\ tasks[taskId].state = "stored"

\* C11: when the task of a session no longer exists at the time completeSession
\* looks it up, the session stays finalized (endTime set, totalMinutes stored),
\* the answer is the success 200 and no task record is created or modified.
C11_MissingTaskStillCompletes ==
    [][\A r \in Reqs :
          (/\ pc[r] = "put_findById"
           /\ ~TaskStored(doc[r].taskId)
           /\ PUT_findById(r)) =>
              /\ pc'[r] = "responded"
              /\ resp'[r] = 200
              /\ tasks' = tasks
              /\ sessions' = sessions
              /\ sessions[req[r].sessionId].endTime # NULL
              /\ sessions[req[r].sessionId].totalMinutes = doc[r].totalMinutes]_vars

\* C11 witness: a PUT was answered 200 after the task had been deleted, and
\* the session is ended with its minutes stored.
C11_Witness ==
    \E r \in Reqs :
        /\ pc[r] = "responded" /\ req[r].op = "PUT" /\ resp[r] = 200
        /\ \A t \in TaskIds : tasks[t].state = "deleted"
        /\ Len(sessions) = 1
        /\ sessions[1].endTime # NULL
        /\ sessions[1].totalMinutes = 1

\* C12: a task's actualHours is 0 when the task is created, is never negative,
\* never decreases, and changes only in the task write of a completeSession.
C12_ActualHoursMonotone ==
    [][\A t \in TaskIds :
          /\ (tasks[t].state # "stored" /\ tasks'[t].state = "stored") =>
                 tasks'[t].actualHours = 0
          /\ tasks'[t].actualHours >= 0
          /\ (tasks[t].state = "stored" /\ tasks'[t].state = "stored") =>
                 /\ tasks'[t].actualHours >= tasks[t].actualHours
                 /\ tasks'[t].actualHours # tasks[t].actualHours =>
                        \E r \in Reqs : pc[r] = "put_taskSave" /\ pc'[r] = "responded"]_vars

\* A GET /api/analytics of user u has been answered by handler r.
Answered(r, u) == pc[r] = "responded" /\ req[r].op = "GET" /\ req[r].userId = u

\* C13: for a user with no task and no session computeAnalytics answers 200
\* with totalPomodoros, totalHoursStudied, overallAccuracy, currentStreak and
\* sessionsCount all 0 and with an empty insight list.
C13_EmptyUserGetsZerosAndNoInsights ==
    \A r \in Reqs, u \in Users :
        (/\ Answered(r, u)
         /\ \A i \in 1 .. Len(sessions) : sessions[i].userId # u
         /\ \A t \in DOMAIN tasks : tasks[t].userId # u) =>
            /\ resp[r] = 200
            /\ doc[r].summary = [totalPomodoros |-> 0, totalHoursStudied |-> 0,
                                 overallAccuracy |-> 0, currentStreak |-> 0,
                                 sessionsCount |-> 0]
            /\ doc[r].insights = <<>>

\* The dates on which user u has a completed session.
StudyDays(u) ==
    {toISODate(sessions[i].startTime) :
        i \in {j \in 1 .. Len(sessions) :
                  sessions[j].userId = u /\ sessions[j].endTime # NULL}}

\* C14: the streak answered is the number of consecutive dates with a
\* completed session, counted backward from today, or from yesterday when
\* today has none, and not beyond the 30 dates that end today.
C14_StreakCountsConsecutiveDays ==
    \A r \in Reqs, u \in Users :
        Answered(r, u) =>
            LET today == toISODate(now)
                first == IF today \in StudyDays(u) THEN today ELSE today - 1
            IN  doc[r].summary.currentStreak =
                    Cardinality({d \in today - StreakDays + 1 .. first :
                                    \A e \in d .. first : e \in StudyDays(u)})

\* C15: the daily breakdown answered has exactly the 7 dates today - 6 .. today
\* as keys, and each entry is the sum of totalMinutes / 60 of the user's
\* completed sessions that started on that date.
C15_DailyBreakdownHasSevenDays ==
    \A r \in Reqs, u \in Users :
        Answered(r, u) =>
            LET today == toISODate(now)
                daily == doc[r].dailyStudyTime
            IN  /\ DOMAIN daily = today - (WeekDays - 1) .. today
                /\ \A d \in DOMAIN daily :
                       daily[d] = Sum([i \in 1 .. Len(sessions) |->
                           IF /\ sessions[i].userId = u
                              /\ sessions[i].endTime # NULL
                              /\ toISODate(sessions[i].startTime) = d
                           THEN sessions[i].totalMinutes ELSE 0])

\* C16: every entry of taskAccuracy has accuracyPercent =
\* max(0, (estimated - |actual - estimated|) / estimated * 100) when
\* estimated > 0 and 0 otherwise, of its task's hours, and it lies in [0, 100].
C16_TaskAccuracyIsClampedFormula ==
    \A r \in Reqs, u \in Users :
        Answered(r, u) =>
            /\ Len(doc[r].taskAccuracy) =
                   Cardinality({t \in DOMAIN tasks :
                                   tasks[t].state = "stored" /\ tasks[t].userId = u})
            /\ \A i \in 1 .. Len(doc[r].taskAccuracy) :
                   LET entry == doc[r].taskAccuracy[i]
                       e == entry.estimated
                       a == entry.actual
                       p == entry.accuracyPercent
                       raw == (e - (IF a - e < 0 THEN e - a ELSE a - e)) * 100
                   IN  /\ \E t \in DOMAIN tasks :
                              /\ tasks[t].state = "stored" /\ tasks[t].userId = u
                              /\ tasks[t].estimatedHours = e /\ tasks[t].actualHours = a
                              /\ tasks[t].subject = entry.subject
                       /\ p.den > 0
                       /\ IF e > 0 /\ raw > 0 THEN p.num * e = raw * p.den ELSE p.num = 0
                       /\ 0 <= p.num /\ p.num <= 100 * p.den

\* C16 witness: an answer with a task estimated 10 h and done in 8 h at 80
\* percent and a task estimated 10 h and done in 25 h at 0 percent.
C16_Witness ==
    \E r \in Reqs, u \in Users :
        /\ Answered(r, u)
        /\ \E i, j \in 1 .. Len(doc[r].taskAccuracy) :
              LET x == doc[r].taskAccuracy[i]
                  y == doc[r].taskAccuracy[j]
              IN  /\ x.estimated = 10 * MinutesPerHour /\ x.actual = 8 * MinutesPerHour
                  /\ x.accuracyPercent.num = 80 * x.accuracyPercent.den
                  /\ y.estimated = 10 * MinutesPerHour /\ y.actual = 25 * MinutesPerHour
                  /\ y.accuracyPercent.num = 0

\* The subjects with at least 2 tasks of user u whose actual hours, summed,
\* exceed 1.2 times their estimated hours, summed.
QualifyingSubjects(u) ==
    LET mine(subj) == {t \in DOMAIN tasks :
            tasks[t].state = "stored" /\ tasks[t].userId = u /\ tasks[t].subject = subj}
        total(subj, field) == Sum([i \in 1 .. Len(TaskOrder) |->
            IF TaskOrder[i] \in mine(subj) THEN tasks[TaskOrder[i]][field] ELSE 0])
    IN  {subj \in Subjects :
            /\ Cardinality(mine(subj)) >= 2
            /\ 10 * total(subj, "actualHours") > 12 * total(subj, "estimatedHours")}

\* C17: the answer holds an underestimation message exactly when some subject
\* qualifies; there is then one such message, and it names the qualifying
\* subjects, each once, and no other subject.
C17_UnderestimationInsight ==
    \A r \in Reqs, u \in Users :
        Answered(r, u) =>
            LET found == {i \in 1 .. Len(doc[r].insights) :
                             doc[r].insights[i].message = "underestimate"}
            IN  /\ (found # {}) <=> (QualifyingSubjects(u) # {})
                /\ Cardinality(found) <= 1
                /\ \A i \in found :
                       LET names == doc[r].insights[i].value
                       IN  /\ {names[k] : k \in 1 .. Len(names)} = QualifyingSubjects(u)
                           /\ Len(names) = Cardinality(QualifyingSubjects(u))

\* C17 witness: an answer whose one message names two subjects, one of them
\* with a task that took less than its estimate.
C17_Witness ==
    \E r \in Reqs, u \in Users :
        /\ Answered(r, u)
        /\ \E i \in 1 .. Len(doc[r].insights) :
              /\ doc[r].insights[i].message = "underestimate"
              /\ Len(doc[r].insights[i].value) = 2
        /\ \E t \in DOMAIN tasks : tasks[t].actualHours < tasks[t].estimatedHours

C19_NoLostIncrement ==
    [][\A r, q \in Reqs :
          (/\ pc[r] = "put_taskSave" /\ pc[q] = "put_taskSave"
           /\ req[r].sessionId # req[q].sessionId
           /\ doc[r].wasActive /\ doc[q].wasActive
           /\ doc[r].taskId = doc[q].taskId
           /\ pc'[q] = "responded" /\ resp'[q] = 200) =>
              doc[r].actualHours =
                  tasks'[doc[r].taskId].actualHours + doc[r].totalMinutes]_vars

\* The user on whose behalf handler r takes its next step.
Actor(r) ==
    IF pc[r] \in {"post_create", "put_save"} THEN req[r].userId
    ELSE IF pc[r] \in {"put_findById", "put_taskSave"}
         THEN sessions[req[r].sessionId].userId
         ELSE NoUser

\* C20: a step of a handler working for one user changes no session and no
\* task owned by another user.
C20_UsersAreIndependent ==
    [][\A r \in Reqs :
          pc'[r] # pc[r] =>
              /\ \A s \in DOMAIN sessions :
                     sessions[s].userId # Actor(r) => sessions'[s] = sessions[s]
              /\ \A t \in TaskIds :
                     (tasks[t].state = "stored" /\ tasks[t].userId # Actor(r)) =>
                         tasks'[t] = tasks[t]]_vars

\* The sum of a field, in sixtieths of an hour, over the stored tasks of user u.
TaskTotal(u, field) ==
    Sum([i \in 1 .. Len(TaskOrder) |->
            IF /\ tasks[TaskOrder[i]].state = "stored"
               /\ tasks[TaskOrder[i]].userId = u
            THEN tasks[TaskOrder[i]][field] ELSE 0])

\* C22: the overallAccuracy answered is, to one decimal,
\* max(0, (totalEstimated - |totalActual - totalEstimated|) / totalEstimated
\* * 100) of the sums over the user's tasks when totalEstimated > 0 and 0
\* otherwise, so it lies in [0, 100].
C22_OverallAccuracyIsClamped ==
    \A r \in Reqs, u \in Users :
        Answered(r, u) =>
            LET e == TaskTotal(u, "estimatedHours")
                a == TaskTotal(u, "actualHours")
                raw == (e - (IF a - e < 0 THEN e - a ELSE a - e)) * 100
                answer == doc[r].summary.overallAccuracy
            IN  /\ answer = IF e > 0 /\ raw > 0 THEN toFixed1(raw, e) ELSE 0
                /\ 0 <= answer /\ answer <= 100 * 10

\* The minutes of the completed sessions of user u that started in the local
\* hour h of a day.
MinutesInHour(u, h) ==
    Sum([i \in 1 .. Len(sessions) |->
            IF /\ sessions[i].userId = u
               /\ sessions[i].endTime # NULL
               /\ getHours(sessions[i].startTime) = h
            THEN sessions[i].totalMinutes ELSE 0])

\* C23: when the user has a completed session, the mostProductiveHour
\* answered is a key of the hourly breakdown whose accumulated time is the
\* maximum over the keys, and the lowest of the hours with that maximum.
C23_MostProductiveHourIsArgmax ==
    \A r \in Reqs, u \in Users :
        (/\ Answered(r, u)
         /\ \E i \in 1 .. Len(sessions) :
               sessions[i].userId = u /\ sessions[i].endTime # NULL) =>
            LET best == doc[r].mostProductiveHour
                hourly == doc[r].hourlyData
            IN  /\ best \in DOMAIN hourly
                /\ \A h \in DOMAIN hourly : MinutesInHour(u, h) <= MinutesInHour(u, best)
                /\ \A h \in DOMAIN hourly :
                       MinutesInHour(u, h) = MinutesInHour(u, best) => best <= h

\* The place of a message in the pipeline (a) .. (e).
InsightRank(message) ==
    CASE message = "pomodoros this week" -> 1
      [] message \in {"estimates often off", "estimates accurate"} -> 2
      [] message = "peak productivity" -> 3
      [] message = "study streak" -> 4
      [] message = "underestimate" -> 5

\* The pomodoros of the completed sessions of user u that started within the
\* last 7 days.
WeeklyPomodoros(u) ==
    Sum([i \in 1 .. Len(sessions) |->
            IF /\ sessions[i].userId = u
               /\ sessions[i].endTime # NULL
               /\ sessions[i].startTime >= now - WeekDays * TicksPerDay
            THEN sessions[i].pomodorosCompleted ELSE 0])

\* C24: the insight list answered holds (a) the weekly-pomodoro message iff
\* weeklyPomodoros > 0, (b) the estimate warning iff the overall accuracy is
\* below 50 and the positive note iff it is above 80, never both, (c) the
\* peak-hour note if the user has a completed session, (d) the streak callout
\* iff the streak answered is > 0, (e) at most one underestimation warning;
\* each stage gives at most one message and the messages stand in the order
\* (a), (b), (c), (d), (e).
C24_InsightPipelineOrder ==
    \A r \in Reqs, u \in Users :
        Answered(r, u) =>
            LET list == doc[r].insights
                has(message) == \E i \in 1 .. Len(list) : list[i].message = message
                e == TaskTotal(u, "estimatedHours")
                a == TaskTotal(u, "actualHours")
                raw == (e - (IF a - e < 0 THEN e - a ELSE a - e)) * 100
            IN  /\ has("pomodoros this week") <=> WeeklyPomodoros(u) > 0
                /\ has("estimates often off") <=> (e <= 0 \/ raw < 50 * e)
                /\ has("estimates accurate") <=> (e > 0 /\ raw > 80 * e)
                /\ ~(has("estimates often off") /\ has("estimates accurate"))
                /\ (\E i \in 1 .. Len(sessions) :
                       sessions[i].userId = u /\ sessions[i].endTime # NULL) =>
                           has("peak productivity")
                /\ has("study streak") <=> doc[r].summary.currentStreak > 0
                /\ \A i, j \in 1 .. Len(list) :
                       i < j => InsightRank(list[i].message) < InsightRank(list[j].message)

\* C24 witness: an answer in which all five stages have pushed their message.
C24_Witness ==
    \E r \in Reqs, u \in Users :
        /\ Answered(r, u)
        /\ Len(doc[r].insights) = 5
        /\ doc[r].insights[1].message = "pomodoros this week"
        /\ doc[r].insights[5].message = "underestimate"

\* The completed sessions of user u, in the order of the collection.
CompletedOf(u) ==
    SelectSeq(sessions, LAMBDA s : s.userId = u /\ s.endTime # NULL)

\* C25: the answer is made of the completed sessions (endTime set) of the
\* requesting user alone: sessionsCount is their number, totalPomodoros and
\* totalHoursStudied are their sums, the hourly, subject and daily breakdowns
\* and the streak are those of these sessions; an active session and a
\* session of another user contribute to none of them.
C25_OnlyCompletedSessionsCount ==
    \A r \in Reqs, u \in Users :
        Answered(r, u) =>
            LET mine == {i \in 1 .. Len(sessions) :
                            sessions[i].userId = u /\ sessions[i].endTime # NULL}
                total(field) == Sum([i \in 1 .. Len(sessions) |->
                                        IF i \in mine THEN sessions[i][field] ELSE 0])
            IN  /\ doc[r].summary.sessionsCount = Cardinality(mine)
                /\ doc[r].summary.totalPomodoros = total("pomodorosCompleted")
                /\ doc[r].summary.totalHoursStudied =
                       toFixed1(total("totalMinutes"), MinutesPerHour)
                /\ DOMAIN doc[r].hourlyData =
                       {getHours(sessions[i].startTime) : i \in mine}
                /\ \A h \in DOMAIN doc[r].hourlyData :
                       doc[r].hourlyData[h] = MinutesInHour(u, h)
                /\ doc[r].subjectData = subjectData(CompletedOf(u))
                /\ doc[r].dailyStudyTime = dailyStudyTime(CompletedOf(u))
                /\ doc[r].summary.currentStreak = currentStreak(CompletedOf(u))

\* C25 witness: an answer for a user who has completed sessions and a session
\* still active that started in an hour of its own, next to a completed
\* session of another user.
C25_Witness ==
    \E r \in Reqs, u \in Users :
        /\ Answered(r, u)
        /\ doc[r].summary.sessionsCount > 0
        /\ \E i \in 1 .. Len(sessions) :
              /\ sessions[i].userId = u /\ sessions[i].endTime = NULL
              /\ getHours(sessions[i].startTime) \notin DOMAIN doc[r].hourlyData
        /\ \E i \in 1 .. Len(sessions) :
              sessions[i].userId # u /\ sessions[i].endTime # NULL

\* C26: computeAnalytics writes nothing: the step that answers a GET leaves
\* every StudySession and every Task as it was, and two answers for one user
\* computed from the same collections at the same time are equal.
C26_AnalyticsIsPureRead ==
    /\ [][\A r \in Reqs :
             (pc[r] = "idle" /\ req'[r].op = "GET") =>
                 sessions' = sessions /\ tasks' = tasks]_vars
    /\ [](\A r, q \in Reqs, u \in Users :
             (Answered(r, u) /\ Answered(q, u)) => doc[r] = doc[q])

\* C26 witness: two answers for one user are on their way at once, computed
\* over completed sessions and a task.
C26_Witness ==
    \E r, q \in Reqs, u \in Users :
        /\ r # q
        /\ Answered(r, u) /\ Answered(q, u)
        /\ doc[r].summary.sessionsCount > 1
        /\ Len(doc[r].taskAccuracy) > 0

\* C30: the step of startSession that creates a session creates it for a
\* task that is in the Task collection at that time and is owned by the user
\* of the session.
C30_SessionTaskExistsAndIsOwned ==
    [][\A r \in Reqs :
          (pc[r] = "post_create" /\ Len(sessions') = Len(sessions) + 1) =>
              LET new == sessions'[Len(sessions')]
              IN  /\ TaskStored(new.taskId)
                  /\ tasks[new.taskId].userId = new.userId]_vars

\* C29: a completeSession by the owner of an active session is accepted,
\* ends the session and, unless a store access throws, is answered 200; when
\* no other request is in flight the user then has no active session left,
\* and a startSession naming a task by a user without an active session is
\* accepted and its create is answered 201 with a session of a new id that
\* is active: after completing, the user can start again.
C29_UserIsNeverBlocked ==
    [][\A r \in Reqs :
          /\ \A u \in Users, s \in SessionIds, b \in Bodies :
                (/\ Owned(s, u) /\ sessions[s].endTime = NULL
                 /\ PUT_findOne(r, u, s, b)) =>
                    pc'[r] = "put_save" /\ doc'[r].wasActive
          /\ (/\ pc[r] = "put_save" /\ doc[r].wasActive
              /\ \A q \in Reqs \ {r} : pc[q] = "idle"
              /\ PUT_save(r)) =>
                \A s \in DOMAIN sessions' :
                    sessions'[s].userId = req[r].userId =>
                        sessions'[s].endTime # NULL
          /\ (/\ InPut(r) /\ doc[r].wasActive
              /\ pc'[r] = "responded" /\ ~StoreThrows(r)) =>
                    /\ resp'[r] = 200
                    /\ sessions'[req[r].sessionId].endTime # NULL
          /\ \A u \in Users, t \in TaskIds :
                (~HasActive(u) /\ POST_findOne(r, u, t)) => pc'[r] = "post_create"
          /\ (pc[r] = "post_create" /\ req[r].taskId # NoTask /\ POST_create(r)) =>
                /\ resp'[r] = 201
                /\ Len(sessions') \notin DOMAIN sessions
                /\ DOMAIN sessions' = DOMAIN sessions \cup {Len(sessions')}
                /\ sessions'[Len(sessions')].userId = req[r].userId
                /\ sessions'[Len(sessions')].endTime = NULL]_vars

\* C21: a timer instance sends at most one session-creating request (POST)
\* whatever Start, Pause and Resume clicks it gets, and at most one completion
\* request (PUT), which only a Complete or a Cancel click sends; a Pause click
\* sends nothing.
C21_PauseResumeIsLocal ==
    [][/\ timer'.posts <= 1
       /\ timer'.puts <= 1
       /\ timer'.puts > timer.puts => (handleComplete \/ handleCancel)
       /\ handlePause => (pc' = pc /\ sessions' = sessions /\ tasks' = tasks)]_vars

\* The running countdown reaches zero in this step.
ReachesZero ==
    /\ timer.mounted /\ timer.isRunning
    /\ timer.timeLeft > 0 /\ timer.timeLeft <= SecondsPerCount
    /\ Interval

\* C27: when a focus countdown reaches zero, pomodorosCompleted grows by one
\* and the timer turns to a break of 15 minutes if the new count is a
\* multiple of 4 and of 5 minutes otherwise; when a break countdown reaches
\* zero, the count stays and the timer turns to a focus interval of 25
\* minutes; the count and the phase change at no other step of a timer.
C27_FocusAndBreakAlternate ==
    [][/\ (ReachesZero /\ ~timer.isBreak) =>
             /\ timer'.pomodorosCompleted = timer.pomodorosCompleted + 1
             /\ timer'.isBreak
             /\ timer'.timeLeft = IF timer'.pomodorosCompleted % 4 = 0
                                  THEN 15 * 60 ELSE 5 * 60
       /\ (ReachesZero /\ timer.isBreak) =>
             /\ timer'.pomodorosCompleted = timer.pomodorosCompleted
             /\ ~timer'.isBreak
             /\ timer'.timeLeft = 25 * 60
       /\ (timer.mounted /\ timer'.mounted) =>
             /\ timer'.pomodorosCompleted # timer.pomodorosCompleted =>
                    (ReachesZero /\ ~timer.isBreak)
             /\ timer'.isBreak # timer.isBreak => ReachesZero]_vars

\* C27 witness: the fourth pomodoro and the long break after it are over, and
\* the timer shows the next focus interval.
C27_Witness ==
    /\ timer.mounted
    /\ timer.pomodorosCompleted = 4
    /\ ~timer.isBreak
    /\ timer.timeLeft = 25 * 60

\* C28: once a timer that sent a start request has been closed by Complete
\* or Cancel and all its requests have been answered, no session is left
\* with endTime = null.
C28_ClosedTimerLeavesNoActiveSession ==
    (~timer.mounted /\ timer.posts > 0 /\ Quiet) =>
        \A s \in DOMAIN sessions : sessions[s].endTime # NULL

====
